---- MODULE Spec2Model ----
(***************************************************************************)
(* ReaderShim (Source/Readers/ReaderLib/ReaderShim.cpp): the shim that     *)
(* wraps a Reader behind the old IDataReader interface.  One caller thread *)
(* calls StartDistributedMinibatchLoop and GetMinibatch; the tasks made by *)
(* std::async run m_reader->ReadMinibatch().                               *)
(***************************************************************************)
EXTENDS Integers, Sequences, FiniteSets, TLC

\* ------------------------------------------------------------------ bounds
\* std::async calls (production tasks) one instance makes in a run
MaxLaunch == 3
\* batches the reader emits in one epoch before it must signal end of epoch
MaxBatches == 2
\* shape and number of nonzero elements of the matrices the sparse decoder is given
MaxRows == 4
MaxCols == 3
MaxNnz == 2

\* ------------------------------------------------- values of the test double
AllNames == {"features", "labels", "wrong"}
\* iteration order of std::map<wstring, ...>: ascending by key
NameOrder == <<"features", "labels", "wrong">>
NpsChoices == {1, 2}
\* time steps per parallel sequence in a layout of the test double
TimeSteps == 1
StorageDense == "dense"
StorageSparseCsc == "sparse_csc"
StorageOther == "other"
\* nonzero element values of the test double
Values == {5, 9}

\* sizeof(size_t), sizeof(IndexType) (CPUSPARSE_INDEX_TYPE is int) and sizeof(ElemType)
\* of the two instantiations, in bytes, on an LP64 build
SizeTSize == 8
IndexSize == 4
FloatSize == 4
DoubleSize == 8
ElemSizes == {FloatSize, DoubleSize}

\* the matrix of the decoding example: 5 at (1,0), 9 at (3,1), as its nonzero elements
ExampleSource(a, b) == {[row |-> 1, col |-> 0, val |-> a], [row |-> 3, col |-> 1, val |-> b]}

NoBatch == [gen |-> 0, seq |-> 0, hasData |-> FALSE, endOfEpoch |-> FALSE, nps |-> 0,
            source |-> {}]
NoConfig == [m_workerRank |-> 0, m_numberOfWorkers |-> 0, m_minibatchSizeInSamples |-> 0,
             m_totalEpochSizeInSamples |-> 0, m_epochIndex |-> 0]
NoResult == [op |-> "none", kind |-> "none", err |-> "none", a |-> 0, b |-> 0,
             name |-> "", names |-> "", fetched |-> FALSE, launchSeen |-> 0,
             args |-> <<>>]
NoLayout == [nps |-> 0, cols |-> 0]
NoSnapshot == [task |-> 0, endOfEpoch |-> FALSE, nps |-> 0]

VARIABLES
    m_launchType,            \* "async" | "deferred"
    ndebug,                  \* TRUE when assert() is compiled out
    elemSize,                \* sizeof(ElemType) of the instantiation
    m_streams,               \* stream id -> [m_name, m_storageType, numElements]
    m_nameToStreamId,        \* name -> stream id
    m_endOfEpoch,
    m_numParallelSequences,
    m_prefetchTask,          \* id of the task the future refers to, 0 = no state
    tasks,                   \* shared states of std::async that still exist
    newTask,                 \* the temporary future of StartDistributedMinibatchLoop
    reader,                  \* the wrapped Reader
    pc,                      \* where the caller thread is
    matrices,                \* the StreamMinibatchInputs of the current call
    minibatch,               \* the local Minibatch of GetMinibatch
    result,                  \* how the last call ended
    atCall,                  \* members as they were when the current call began
    nLaunched,               \* std::async calls so far
    nReturned,               \* fetching GetMinibatch calls returned in this epoch
    nFetched,                \* m_prefetchTask.get() calls completed in this epoch
    nDiscarded,              \* shared states released without get()
    emitted,                 \* data-bearing batches the reader emitted this epoch
    delivered                \* batches decoded by calls that returned true

vars == <<m_launchType, ndebug, elemSize, m_streams, m_nameToStreamId, m_endOfEpoch,
          m_numParallelSequences, m_prefetchTask, tasks, newTask, reader, pc,
          matrices, minibatch, result, atCall, nLaunched, nReturned, nFetched,
          nDiscarded, emitted, delivered>>

config == <<m_launchType, ndebug, elemSize, m_streams, m_nameToStreamId>>
history == <<nReturned, nFetched, nDiscarded, emitted, delivered>>

\* ------------------------------------------------------------ the Reader
\* m_reader->GetStreamDescriptions(): "features" is dense, "labels" varies
Catalogs ==
    { <<[m_name |-> "features", m_id |-> 0, m_storageType |-> StorageDense, numElements |-> 2],
        [m_name |-> "labels", m_id |-> 1, m_storageType |-> st, numElements |-> 3]>> :
      st \in {StorageDense, StorageSparseCsc, StorageOther} }

\* m_reader->StartEpoch(config)
ReaderStartEpoch(r, cfg) ==
    [config |-> cfg, gen |-> r.gen + 1, seq |-> 0, ended |-> FALSE]

\* the matrix the reader encodes into the streams of its seq-th batch
SourceOf(seq) == IF seq % 2 = 1 THEN ExampleSource(5, 9) ELSE ExampleSource(9, 5)

\* the batches m_reader->ReadMinibatch() may return in state r
ReaderBatches(r) ==
    IF r.ended
    THEN {[gen |-> r.gen, seq |-> r.seq + 1, hasData |-> FALSE, endOfEpoch |-> TRUE, nps |-> 0,
           source |-> {}]}
    ELSE {[gen |-> r.gen, seq |-> r.seq + 1, hasData |-> d, endOfEpoch |-> e,
           nps |-> IF d THEN n ELSE 0, source |-> IF d THEN SourceOf(r.seq + 1) ELSE {}] :
            d \in BOOLEAN, e \in IF r.seq + 1 >= MaxBatches THEN {TRUE} ELSE BOOLEAN,
            n \in NpsChoices}

ReaderAfterRead(r, b) == [r EXCEPT !.seq = b.seq, !.ended = b.endOfEpoch]

\* ------------------------------------------------------------ std::async
HandleTask == CHOOSE t \in tasks \cup {[id |-> 0]} : t.id = m_prefetchTask

Valid(f) == f # 0

\* std::async(m_launchType, [this]() { return m_reader->ReadMinibatch(); })
\* (seen: how many fetching GetMinibatch calls of the epoch had returned by then)
Launch(ts, id, seen) ==
    ts \cup {[id |-> id, status |-> "launched", result |-> NoBatch, launchSeen |-> seen]}

\* releasing the shared state of future f returns: only the last reference to a
\* launch::async state blocks, until its task has finished
ReleaseReady(f) ==
    IF Valid(f) /\ m_launchType = "async" THEN HandleTask.status = "done" ELSE TRUE

\* ------------------------------------------------------------------ Init
\* ReaderShim::ReaderShim and ReaderShim::Init; m_endOfEpoch has no initializer
Init ==
    /\ m_launchType \in {"async", "deferred"}
    /\ ndebug \in BOOLEAN
    /\ elemSize = FloatSize
    /\ m_streams \in Catalogs
    /\ m_nameToStreamId = [n \in {m_streams[i].m_name : i \in 1..Len(m_streams)} |->
                             (CHOOSE i \in 1..Len(m_streams) : m_streams[i].m_name = n) - 1]
    /\ m_endOfEpoch \in BOOLEAN
    /\ m_numParallelSequences = 1
    /\ m_prefetchTask = 0
    /\ tasks = {}
    /\ newTask = 0
    /\ reader = [config |-> NoConfig, gen |-> 0, seq |-> 0, ended |-> FALSE]
    /\ pc = "idle"
    /\ matrices = <<>>
    /\ minibatch = NoBatch
    /\ result = NoResult
    /\ atCall = NoSnapshot
    /\ nLaunched = 0
    /\ nReturned = 0
    /\ nFetched = 0
    /\ nDiscarded = 0
    /\ emitted = <<>>
    /\ delivered = <<>>

\* ------------------------------------ StartDistributedMinibatchLoop
EpochConfiguration(requestedMBSize, epoch, subsetNum, numSubsets, requestedEpochSamples) ==
    [m_workerRank |-> subsetNum, m_numberOfWorkers |-> numSubsets,
     m_minibatchSizeInSamples |-> requestedMBSize,
     m_totalEpochSizeInSamples |-> requestedEpochSamples, m_epochIndex |-> epoch]

Snapshot == [task |-> m_prefetchTask, endOfEpoch |-> m_endOfEpoch, nps |-> m_numParallelSequences]

\* lines 58-72: the call, up to entering m_reader->StartEpoch(config)
StartEpochCall(requestedMBSize, epoch, subsetNum, numSubsets, requestedEpochSamples) ==
    /\ pc = "idle"
    /\ nLaunched < MaxLaunch
    /\ pc' = "se_reader"
    /\ result' = [NoResult EXCEPT !.op = "StartEpoch",
                      !.args = <<requestedMBSize, epoch, subsetNum, numSubsets,
                                 requestedEpochSamples>>]
    /\ atCall' = Snapshot
    /\ matrices' = <<>>
    /\ minibatch' = NoBatch
    /\ UNCHANGED <<config, m_endOfEpoch, m_numParallelSequences, m_prefetchTask, tasks,
                   newTask, reader, nLaunched, history>>

\* StartMinibatchLoop (line 54: subset 0 of 1) and StartDistributedMinibatchLoop
StartEpoch ==
    \E a \in {<<4, 0, 0, 1, 8>>, <<5, 1, 1, 2, 9>>} :
        StartEpochCall(a[1], a[2], a[3], a[4], a[5])

\* (variant: the flag is left as it was)
EndOfEpochKept == m_endOfEpoch

\* line 73
EndOfEpochAfterStart == FALSE

\* lines 72-75: StartEpoch returns, m_endOfEpoch = false, std::async makes the new future
StartEpochLaunch ==
    /\ pc = "se_reader"
    /\ reader' = ReaderStartEpoch(reader, EpochConfiguration(result.args[1], result.args[2],
                                       result.args[3], result.args[4], result.args[5]))
    /\ m_endOfEpoch' = EndOfEpochAfterStart
    /\ tasks' = Launch(tasks, nLaunched + 1, 0)
    /\ newTask' = nLaunched + 1
    /\ nLaunched' = nLaunched + 1
    /\ pc' = "se_assign"
    /\ emitted' = <<>>
    /\ delivered' = <<>>
    /\ nReturned' = 0
    /\ nFetched' = 0
    /\ UNCHANGED <<config, m_numParallelSequences, m_prefetchTask, matrices, minibatch,
                   result, atCall, nDiscarded>>

\* line 75: m_prefetchTask = <new future>.  The old shared state is released: one
\* made by launch::async blocks until its task has finished, a deferred one that
\* never ran is dropped; either way its result is never read.
StartEpochAssign ==
    /\ pc = "se_assign"
    /\ ReleaseReady(m_prefetchTask)
    /\ tasks' = {t \in tasks : t.id # m_prefetchTask}
    /\ nDiscarded' = IF Valid(m_prefetchTask) THEN nDiscarded + 1 ELSE nDiscarded
    /\ m_prefetchTask' = newTask
    /\ newTask' = 0
    /\ pc' = "idle"
    /\ result' = [result EXCEPT !.kind = "returned"]
    /\ UNCHANGED <<config, m_endOfEpoch, m_numParallelSequences, reader, matrices,
                   minibatch, atCall, nLaunched, nReturned, nFetched, emitted, delivered>>

\* ------------------------------------------------- the production task
\* (variant: a deferred task is run like an asynchronous one)
MayStartAnyTime(t) == TRUE

\* lines 36-39: launch::async runs the task on its own thread; launch::deferred runs
\* it inside get() (line 126), called on the future of this task
MayStart(t) ==
    IF m_launchType = "async" THEN TRUE
    ELSE pc = "gm_await" /\ t.id = m_prefetchTask

\* the lambda starts: at once on its own thread (launch::async), or inside
\* m_prefetchTask.get() on the calling thread (launch::deferred)
ReadBegin(t) ==
    /\ t.status = "launched"
    /\ MayStart(t)
    /\ tasks' = (tasks \ {t}) \cup {[t EXCEPT !.status = "running"]}
    /\ UNCHANGED <<config, m_endOfEpoch, m_numParallelSequences, m_prefetchTask, newTask,
                   reader, pc, matrices, minibatch, result, atCall, nLaunched, history>>

\* m_reader->ReadMinibatch() returns batch b and the task is ready
ReadEnd(t) ==
    /\ t.status = "running"
    /\ \E b \in ReaderBatches(reader) :
        /\ tasks' = (tasks \ {t}) \cup {[t EXCEPT !.status = "done", !.result = b]}
        /\ reader' = ReaderAfterRead(reader, b)
        /\ emitted' = IF b.hasData THEN Append(emitted, <<b.gen, b.seq>>) ELSE emitted
    /\ UNCHANGED <<config, m_endOfEpoch, m_numParallelSequences, m_prefetchTask, newTask,
                   pc, matrices, minibatch, result, atCall, nLaunched, nReturned, nFetched,
                   nDiscarded, delivered>>

Task == \E t \in tasks : ReadBegin(t) \/ ReadEnd(t)

\* ------------------------------------------------------------ GetMinibatch
\* the StreamMinibatchInputs a caller may pass: name -> matrix with its device id
\* and the row count it already has (0 = not set)
DestChoices(n) ==
    CASE n = "features" -> {[dev |-> 0, rows |-> r] : r \in {0, 2, 3}}
      [] n = "labels" -> {[dev |-> d, rows |-> 0] : d \in {0, 1}}
      [] OTHER -> {[dev |-> 0, rows |-> 0]}

FreshMatrix(d) ==
    [dev |-> d.dev, rows |-> d.rows, cols |-> 0, layout |-> NoLayout, fill |-> "none",
     data |-> <<>>]

Inputs ==
    UNION { {[n \in S |-> FreshMatrix(f[n])] : f \in {g \in [S -> UNION {DestChoices(n) : n \in S}] :
                                                       \A n \in S : g[n] \in DestChoices(n)}} :
            S \in SUBSET AllNames }

\* (variant: only too few matrices are refused)
CountTooFew(mx) == Cardinality(DOMAIN mx) < Cardinality(DOMAIN m_nameToStreamId)

\* lines 101-102: size != m_nameToStreamId.size()
CountMismatch(mx) == Cardinality(DOMAIN mx) # Cardinality(DOMAIN m_nameToStreamId)

\* first key of the map in iteration order
FirstName(mx) == NameOrder[CHOOSE i \in 1..Len(NameOrder) :
                     /\ NameOrder[i] \in DOMAIN mx
                     /\ \A j \in 1..(i - 1) : NameOrder[j] \notin DOMAIN mx]

\* lines 115-122: some matrix is not on the device of the first one
DeviceMismatch(mx) ==
    \E n \in DOMAIN mx : mx[n].dev # mx[FirstName(mx)].dev

\* EnumerateInputs (lines 81-96): the keys in map order, quoted, joined by ", "
RECURSIVE EnumerateFrom(_, _, _)
EnumerateFrom(i, nameToStreamId, first) ==
    IF i > Len(NameOrder) THEN ""
    ELSE IF NameOrder[i] \in DOMAIN nameToStreamId
         THEN (IF first THEN "" ELSE ", ") \o "\"" \o NameOrder[i] \o "\""
              \o EnumerateFrom(i + 1, nameToStreamId, FALSE)
         ELSE EnumerateFrom(i + 1, nameToStreamId, first)

EnumerateInputs(nameToStreamId) == EnumerateFrom(1, nameToStreamId, TRUE)

\* --------------------------------------------------- the payload of a stream
\* a value as size bytes, least significant first (an element value stands for its
\* bit pattern)
RECURSIVE Bytes(_, _)
Bytes(v, size) == IF size = 0 THEN <<>> ELSE <<v % 256>> \o Bytes(v \div 256, size - 1)

\* *(T*)(buffer + at) for a T of size bytes
RECURSIVE ReadAt(_, _, _)
ReadAt(buffer, at, size) ==
    IF size = 0 THEN 0 ELSE buffer[at + 1] + 256 * ReadAt(buffer, at + 1, size - 1)

\* p[0..count-1] for a T* p at byte offset at
ArrayAt(buffer, at, size, count) ==
    [i \in 1..count |-> ReadAt(buffer, at + (i - 1) * size, size)]

\* the nonzero elements that lie inside numRows x numCols
Crop(source, numRows, numCols) == {e \in source : e.row < numRows /\ e.col < numCols}

ValueAt(source, r, c) ==
    IF \E e \in source : e.row = r /\ e.col = c
    THEN (CHOOSE e \in source : e.row = r /\ e.col = c).val
    ELSE 0

\* the nonzero elements in column-major order
RECURSIVE InCscOrder(_)
InCscOrder(source) ==
    IF source = {} THEN <<>>
    ELSE LET first == CHOOSE e \in source :
                 \A f \in source : e.col < f.col \/ (e.col = f.col /\ e.row <= f.row)
         IN <<first>> \o InCscOrder(source \ {first})

RECURSIVE Concat(_)
Concat(seqs) == IF seqs = <<>> THEN <<>> ELSE Head(seqs) \o Concat(Tail(seqs))

\* the reader's dense payload: numRows * numCols elements, column by column
DenseEncode(source, numRows, numCols, size) ==
    Concat([i \in 1..(numRows * numCols) |->
               Bytes(ValueAt(source, (i - 1) % numRows, (i - 1) \div numRows), size)])

\* the reader's sparse_csc payload:
\* [nnz][values: nnz elements][row indices: nnz][column offsets: numCols + 1]
CscEncode(source, numCols, size) ==
    LET ord == InCscOrder(source)
        nnz == Len(ord)
    IN Bytes(nnz, SizeTSize)
       \o Concat([i \in 1..nnz |-> Bytes(ord[i].val, size)])
       \o Concat([i \in 1..nnz |-> Bytes(ord[i].row, IndexSize)])
       \o Concat([c \in 1..(numCols + 1) |->
                     Bytes(Cardinality({e \in source : e.col < c - 1}), IndexSize)])

\* minibatch.m_data[streamId]: its layout and its payload
StreamOf(mb, streamId) ==
    LET numCols == mb.nps * TimeSteps
        numRows == m_streams[streamId + 1].numElements
        source == Crop(mb.source, numRows, numCols)
    IN [layout |-> [nps |-> mb.nps, cols |-> numCols],
        data |-> IF m_streams[streamId + 1].m_storageType = StorageSparseCsc
                 THEN CscEncode(source, numCols, elemSize)
                 ELSE DenseEncode(source, numRows, numCols, elemSize)]

\* ------------------------------------------------------------ the Matrix
\* Matrix::SetValue(numRows, numCols, deviceId, data, matrixFlagNormal)
SetValue(matrix, numRows, numCols, data) ==
    [matrix EXCEPT !.rows = numRows, !.cols = numCols, !.fill = "dense",
                   !.data = ArrayAt(data, 0, elemSize, numRows * numCols)]

\* Matrix::SetMatrixFromCSCFormat(columns, rows, values, nnzCount, numRows, numCols):
\* copies nnzCount values and row indices and numCols + 1 column offsets
SetMatrixFromCSCFormat(matrix, data, columns, rows, values, nnzCount, numRows, numCols) ==
    [matrix EXCEPT !.rows = numRows, !.cols = numCols, !.fill = "sparse",
                   !.data = [nnz |-> nnzCount,
                             values |-> ArrayAt(data, values, elemSize, nnzCount),
                             rows |-> ArrayAt(data, rows, IndexSize, nnzCount),
                             columns |-> ArrayAt(data, columns, IndexSize, numCols + 1)]]

\* the dense matrix a sparse matrix stands for, as (row, column) -> element
Densify(matrix) ==
    [rc \in (0..(matrix.rows - 1)) \X (0..(matrix.cols - 1)) |->
        LET d == matrix.data
            at == {k \in 1..d.nnz : /\ d.columns[rc[2] + 1] < k
                                    /\ k <= d.columns[rc[2] + 2]
                                    /\ d.rows[k] = rc[1]}
        IN IF at = {} THEN 0 ELSE d.values[CHOOSE k \in at : TRUE]]

\* ------------------------------------------------- FillMatrixFromStream
\* line 202: (int)type
StorageCode(type) ==
    CASE type = StorageDense -> 0
      [] type = StorageSparseCsc -> 1
      [] OTHER -> 2

\* line 195: data + 1, as a byte offset
ValuesAt == SizeTSize

\* line 196: values + nnzCount
RowsAt(nnzCount) == ValuesAt + nnzCount * elemSize

\* (variant: the column offsets are read where the row indices start)
ColumnsAtRows(nnzCount) == RowsAt(nnzCount)

\* line 197: rows + nnzCount
ColumnsAt(nnzCount) == RowsAt(nnzCount) + nnzCount * IndexSize

\* lines 189-199
FillSparseCsc(matrix, numRows, numCols, data) ==
    LET nnzCount == ReadAt(data, 0, SizeTSize)
    IN SetMatrixFromCSCFormat(matrix, data, ColumnsAt(nnzCount), RowsAt(nnzCount), ValuesAt,
                              nnzCount, numRows, numCols)

\* (variant: the last branch is taken for the sparse format only by elimination)
FillDenseOrSparse(type, matrix, numRows, stream) ==
    LET numCols == stream.layout.cols IN
    IF type = StorageDense
    THEN [ok |-> TRUE, matrix |-> SetValue(matrix, numRows, numCols, stream.data)]
    ELSE [ok |-> TRUE, matrix |-> [matrix EXCEPT !.rows = numRows, !.cols = numCols,
                                                  !.fill = "sparse"]]

\* FillMatrixFromStream (lines 179-204): ok and the matrix afterwards
FillMatrixFromStream(type, matrix, numRows, stream) ==
    LET numCols == stream.layout.cols IN
    IF type = StorageDense
    THEN [ok |-> TRUE, matrix |-> SetValue(matrix, numRows, numCols, stream.data)]
    ELSE IF type = StorageSparseCsc
    THEN [ok |-> TRUE, matrix |-> FillSparseCsc(matrix, numRows, numCols, stream.data)]
    ELSE [ok |-> FALSE, matrix |-> matrix]

\* (variant: a matrix without rows is checked too)
SizeDiffers(expectedRowNumber, rowNumber) == expectedRowNumber # rowNumber

\* line 159
SizeMismatch(expectedRowNumber, rowNumber) ==
    expectedRowNumber > 0 /\ expectedRowNumber # rowNumber

\* (variant: the assignment is missing)
SequencesKept(stream, nps) == nps

\* line 152: the value assigned to m_numParallelSequences
SequencesObserved(stream, nps) == stream.layout.nps

DecodeOk(mx, nps) == [matrices |-> mx, nps |-> nps, err |-> "none", a |-> 0, b |-> 0,
                      name |-> "", names |-> ""]

\* one pass of the loop body, lines 142-164, for the matrix named n
DecodeOne(n, mx, nps, mb) ==
    IF n \notin DOMAIN m_nameToStreamId
    THEN [DecodeOk(mx, nps) EXCEPT !.err = "UnknownInput", !.name = n,
                                   !.names = EnumerateInputs(m_nameToStreamId)]
    ELSE LET streamId == m_nameToStreamId[n]
             stream == StreamOf(mb, streamId)
             rowNumber == m_streams[streamId + 1].numElements
             withLayout == [mx EXCEPT ![n].layout = stream.layout]
             expectedRowNumber == mx[n].rows
             observed == SequencesObserved(stream, nps)
             filled == FillMatrixFromStream(m_streams[streamId + 1].m_storageType,
                                            withLayout[n], rowNumber, stream)
         IN IF SizeMismatch(expectedRowNumber, rowNumber)
            THEN [DecodeOk(withLayout, observed) EXCEPT
                     !.err = "SizeMismatch", !.name = n, !.a = rowNumber,
                     !.b = expectedRowNumber]
            ELSE IF ~filled.ok
            THEN [DecodeOk(withLayout, observed) EXCEPT
                     !.err = "UnsupportedStorage", !.name = n,
                     !.a = StorageCode(m_streams[streamId + 1].m_storageType)]
            ELSE DecodeOk([withLayout EXCEPT ![n] = filled.matrix], observed)

\* the loop of lines 140-165 from the i-th name on; it stops at the first error
RECURSIVE DecodeFrom(_, _, _, _)
DecodeFrom(i, mx, nps, mb) ==
    IF i > Len(NameOrder) THEN DecodeOk(mx, nps)
    ELSE IF NameOrder[i] \notin DOMAIN mx THEN DecodeFrom(i + 1, mx, nps, mb)
    ELSE LET one == DecodeOne(NameOrder[i], mx, nps, mb)
         IN IF one.err # "none" THEN one
            ELSE DecodeFrom(i + 1, one.matrices, one.nps, mb)

\* (variant: a failed decode gives the matrices back as they were passed)
DecodeRolledBack(mx, nps, mb) ==
    LET dec == IF mb.hasData THEN DecodeFrom(1, mx, nps, mb) ELSE DecodeOk(mx, nps)
    IN IF dec.err # "none" THEN [dec EXCEPT !.matrices = mx] ELSE dec

\* lines 136-166
Decode(mx, nps, mb) == IF mb.hasData THEN DecodeFrom(1, mx, nps, mb) ELSE DecodeOk(mx, nps)

GMResult(kind) == [NoResult EXCEPT !.op = "GetMinibatch", !.kind = kind]

\* lines 101-124, up to the call of m_prefetchTask.get()
GetMinibatchCall(mx) ==
    /\ pc = "idle"
    /\ nLaunched < MaxLaunch
    /\ matrices' = mx
    /\ minibatch' = NoBatch
    /\ atCall' = Snapshot
    /\ IF CountMismatch(mx)
       THEN /\ result' = [GMResult("error") EXCEPT !.err = "CountMismatch",
                             !.a = Cardinality(DOMAIN mx),
                             !.b = Cardinality(DOMAIN m_nameToStreamId)]
            /\ pc' = "idle"
       ELSE IF m_endOfEpoch
       THEN /\ result' = GMResult("false")
            /\ pc' = "idle"
       ELSE IF (DeviceMismatch(mx) \/ ~Valid(m_prefetchTask)) /\ ~ndebug
       THEN \* assert(false), assert(m_prefetchTask.valid())
            /\ result' = GMResult("abort")
            /\ pc' = "aborted"
       ELSE IF ~Valid(m_prefetchTask)
       THEN \* get() on a future without shared state: undefined
            \/ /\ result' = [GMResult("error") EXCEPT !.err = "FutureNoState"]
               /\ pc' = "idle"
            \/ /\ result' = GMResult("abort")
               /\ pc' = "aborted"
       ELSE /\ result' = GMResult("none")
            /\ pc' = "gm_await"
    /\ UNCHANGED <<config, m_endOfEpoch, m_numParallelSequences, m_prefetchTask, tasks,
                   newTask, reader, nLaunched, history>>

GetMinibatch == \E mx \in Inputs : GetMinibatchCall(mx)

\* lines 127-166 once get() has returned mb: what the call does with it
FetchOutcome(mb, dec, got) ==
    IF mb.endOfEpoch /\ ~mb.hasData
    THEN /\ result' = [got EXCEPT !.kind = "false"]
         /\ pc' = "idle"
         /\ nReturned' = nReturned + 1
         /\ UNCHANGED <<matrices, m_numParallelSequences>>
    ELSE /\ matrices' = dec.matrices
         /\ m_numParallelSequences' = dec.nps
         /\ nReturned' = nReturned
         /\ IF dec.err # "none"
            THEN /\ result' = [got EXCEPT !.kind = "error", !.err = dec.err, !.a = dec.a,
                                          !.b = dec.b, !.name = dec.name,
                                          !.names = dec.names]
                 /\ pc' = "idle"
            ELSE /\ result' = got
                 /\ pc' = "gm_relaunch"

\* lines 126-166: get() returns the batch, end of epoch is recorded, the batch is decoded
GetMinibatchFetch ==
    /\ pc = "gm_await"
    /\ HandleTask.status = "done"
    /\ LET mb == HandleTask.result
           dec == Decode(matrices, m_numParallelSequences, mb)
       IN /\ minibatch' = mb
          /\ tasks' = tasks \ {HandleTask}
          /\ m_prefetchTask' = 0
          /\ m_endOfEpoch' = (m_endOfEpoch \/ mb.endOfEpoch)
          /\ nFetched' = nFetched + 1
          /\ FetchOutcome(mb, dec, [GMResult("none") EXCEPT !.fetched = TRUE,
                                       !.launchSeen = HandleTask.launchSeen])
    /\ UNCHANGED <<config, newTask, reader, atCall, nLaunched, nDiscarded, emitted,
                   delivered>>

\* (variants: the relaunch ignores the flag, or never happens)
RelaunchAlways == TRUE

RelaunchNever == FALSE

\* line 168
RelaunchNeeded == ~m_endOfEpoch

\* lines 168-174
GetMinibatchRelaunch ==
    /\ pc = "gm_relaunch"
    /\ IF RelaunchNeeded
       THEN /\ tasks' = Launch(tasks, nLaunched + 1, nReturned)
            /\ m_prefetchTask' = nLaunched + 1
            /\ nLaunched' = nLaunched + 1
       ELSE UNCHANGED <<tasks, m_prefetchTask, nLaunched>>
    /\ pc' = "gm_return"
    /\ UNCHANGED <<config, m_endOfEpoch, m_numParallelSequences, newTask, reader, matrices,
                   minibatch, result, atCall, history>>

\* (variant: true for every batch that does not end the epoch)
ReturnValueNotEnd(mb) == mb.hasData \/ ~mb.endOfEpoch

\* line 176: !minibatch.m_data.empty()
ReturnValue(mb) == mb.hasData

GetMinibatchReturn ==
    /\ pc = "gm_return"
    /\ result' = [result EXCEPT !.kind = IF ReturnValue(minibatch) THEN "true" ELSE "false"]
    /\ delivered' = IF minibatch.hasData
                    THEN Append(delivered, <<minibatch.gen, minibatch.seq>>)
                    ELSE delivered
    /\ nReturned' = nReturned + 1
    /\ pc' = "idle"
    /\ UNCHANGED <<config, m_endOfEpoch, m_numParallelSequences, m_prefetchTask, tasks,
                   newTask, reader, matrices, minibatch, atCall, nLaunched, nFetched,
                   nDiscarded, emitted>>

\* GetNumParallelSequences (lines 215-219)
GetNumParallelSequences == m_numParallelSequences

Next ==
    \/ StartEpoch
    \/ StartEpochLaunch
    \/ StartEpochAssign
    \/ GetMinibatch
    \/ GetMinibatchFetch
    \/ GetMinibatchRelaunch
    \/ GetMinibatchReturn
    \/ Task

Spec == Init /\ [][Next]_vars

\* ------------------------------------------------- one epoch, scheduled fairly
\* The caller starts one epoch and then calls GetMinibatch, with any bindings.
LiveStartEpoch == reader.gen = 0 /\ StartEpoch

LiveGetMinibatch == reader.gen > 0 /\ GetMinibatch

\* the bindings line 101-163 accept: one matrix per stream, all on one device, each
\* with no rows yet or with the sample size of its stream
ValidBindings(mx) ==
    /\ DOMAIN mx = DOMAIN m_nameToStreamId
    /\ \A n \in DOMAIN mx, k \in DOMAIN mx : mx[n].dev = mx[k].dev
    /\ \A n \in DOMAIN mx : mx[n].rows \in {0, m_streams[m_nameToStreamId[n] + 1].numElements}

ValidGetMinibatch ==
    reader.gen > 0 /\ \E mx \in Inputs : ValidBindings(mx) /\ GetMinibatchCall(mx)

\* what the caller thread does inside a call, the return of get() apart
CallerStep ==
    StartEpochLaunch \/ StartEpochAssign \/ GetMinibatchRelaunch \/ GetMinibatchReturn

\* m_prefetchTask.get() can return: GetMinibatchFetch is enabled
FetchReady == pc = "gm_await" /\ HandleTask.status = "done"

LiveNext ==
    \/ LiveStartEpoch
    \/ StartEpochLaunch
    \/ StartEpochAssign
    \/ LiveGetMinibatch
    \/ GetMinibatchFetch
    \/ GetMinibatchRelaunch
    \/ GetMinibatchReturn
    \/ Task

\* the thread of a launch::async task is scheduled, and get() runs a deferred task;
\* the caller thread goes on inside a call; get() returns once the task is done (weak
\* fairness of GetMinibatchFetch, written by its enabling condition, which every
\* GetMinibatchFetch step ends); the caller keeps calling GetMinibatch with valid
\* bindings
LiveSpec ==
    /\ Init
    /\ [][LiveNext]_vars
    /\ WF_vars(Task)
    /\ WF_vars(CallerStep)
    /\ []<>~FetchReady
    /\ WF_vars(ValidGetMinibatch)

\* ------------------------------------------- the sparse decoder on its own
\* A shim over a reader with one sparse_csc stream, holding a fetched batch whose
\* matrix is still being composed, and the caller's empty matrix for it.
InitCsc ==
    /\ m_launchType = "deferred"
    /\ ndebug = TRUE
    /\ elemSize \in ElemSizes
    /\ \E numRows \in 1..MaxRows :
          m_streams = <<[m_name |-> "labels", m_id |-> 0, m_storageType |-> StorageSparseCsc,
                         numElements |-> numRows]>>
    /\ m_nameToStreamId = [n \in {"labels"} |-> 0]
    /\ m_endOfEpoch = FALSE
    /\ m_numParallelSequences = 1
    /\ m_prefetchTask = 0
    /\ tasks = {}
    /\ newTask = 0
    /\ reader = [config |-> NoConfig, gen |-> 1, seq |-> 1, ended |-> FALSE]
    /\ pc = "csc_encode"
    /\ matrices = [n \in {"labels"} |-> FreshMatrix([dev |-> 0, rows |-> 0])]
    /\ \E nps \in {n \in 1..MaxCols : n * TimeSteps <= MaxCols} :
          minibatch = [gen |-> 1, seq |-> 1, hasData |-> TRUE, endOfEpoch |-> FALSE,
                       nps |-> nps, source |-> {}]
    /\ result = NoResult
    /\ atCall = NoSnapshot
    /\ nLaunched = 0
    /\ nReturned = 0
    /\ nFetched = 0
    /\ nDiscarded = 0
    /\ emitted = <<>>
    /\ delivered = <<>>

\* the reader sets one more nonzero element of the matrix it will encode
CscPut(r, c, v) ==
    /\ pc = "csc_encode"
    /\ Cardinality(minibatch.source) < MaxNnz
    /\ r < m_streams[1].numElements
    /\ c < minibatch.nps * TimeSteps
    /\ \A e \in minibatch.source : e.row # r \/ e.col # c
    /\ minibatch' = [minibatch EXCEPT !.source = @ \cup {[row |-> r, col |-> c, val |-> v]}]
    /\ UNCHANGED <<config, history, m_endOfEpoch, m_numParallelSequences, m_prefetchTask,
                   tasks, newTask, reader, pc, matrices, result, atCall, nLaunched>>

\* the loop body of lines 142-164 on the stream's payload
CscFill ==
    /\ pc = "csc_encode"
    /\ LET one == DecodeOne("labels", matrices, m_numParallelSequences, minibatch)
       IN /\ matrices' = one.matrices
          /\ m_numParallelSequences' = one.nps
    /\ pc' = "csc_done"
    /\ UNCHANGED <<config, history, m_endOfEpoch, m_prefetchTask, tasks, newTask, reader,
                   minibatch, result, atCall, nLaunched>>

NextCsc ==
    \/ \E r \in 0..(MaxRows - 1), c \in 0..(MaxCols - 1), v \in Values : CscPut(r, c, v)
    \/ CscFill

SpecCsc == InitCsc /\ [][NextCsc]_vars

\* ================================================================ properties
IsGetMinibatch == result.op = "GetMinibatch"

Returned == pc = "idle" /\ IsGetMinibatch /\ result.kind \in {"true", "false"}

\* end of epoch was recorded by a fetch of the current epoch
EndOfEpochSeen == m_endOfEpoch /\ nFetched > 0

\* no matrix of the current call has been written
Untouched == \A n \in DOMAIN matrices :
    matrices[n].fill = "none" /\ matrices[n].layout = NoLayout /\ matrices[n].cols = 0

\* the call passes another number of matrices than the reader has streams
WrongCount(mx) == Cardinality(DOMAIN mx) # Cardinality(DOMAIN m_nameToStreamId)

\* tasks launched and not yet completed
InFlight == {t \in tasks : t.status # "done"}

UnknownName(mx) == \E n \in DOMAIN mx : n \notin DOMAIN m_nameToStreamId

IsPrefix(s, t) == Len(s) <= Len(t) /\ \A i \in 1..Len(s) : s[i] = t[i]

\* C1: at most one production task is launched and not yet completed at any time,
\* also while StartDistributedMinibatchLoop runs with a task still in flight.
C1_AtMostOneInFlight == Cardinality(InFlight) <= 1

\* C2: once a fetch has recorded end of epoch, no step other than the next
\* StartDistributedMinibatchLoop launches or awaits a task or touches the reader, and
\* a GetMinibatch call with the right number of matrices returns false at once,
\* with the future and the matrices untouched.
C2_NoProductionAfterEndOfEpoch ==
    [][(EndOfEpochSeen /\ pc # "se_reader" /\ pc' # "se_reader") =>
          /\ tasks' = tasks /\ tasks = {}
          /\ m_prefetchTask' = m_prefetchTask /\ ~Valid(m_prefetchTask)
          /\ reader' = reader
          /\ nLaunched' = nLaunched /\ nFetched' = nFetched
          /\ m_endOfEpoch'
          /\ (pc = "idle" /\ ~WrongCount(matrices')) =>
                (pc' = "idle" /\ result'.kind = "false" /\ ~result'.fetched /\ Untouched')]_vars

C2_Witness ==
    /\ EndOfEpochSeen /\ Returned /\ result.kind = "false" /\ ~result.fetched
    /\ ~WrongCount(matrices)

\* C3: the calls that return true deliver the data-bearing batches the reader emitted
\* in the epoch, in order, none skipped or repeated; when end of epoch is recorded and
\* every fetching call has returned, all of them have been delivered, and the next call
\* with the right number of matrices returns false.
C3_DeliversEmittedInOrder ==
    /\ IsPrefix(delivered, emitted)
    /\ (pc = "idle" /\ EndOfEpochSeen /\ nFetched = nReturned) => delivered = emitted
    /\ (Returned /\ ~result.fetched /\ ~WrongCount(matrices)) => result.kind = "false"

\* C4: every task that was launched is collected by a GetMinibatch; no shared state is
\* released without its result having been read.
C4_EveryTaskCollected == nDiscarded = 0

\* C5: with launch::async, a GetMinibatch that fetched a batch without end of epoch has
\* launched the next ReadMinibatch when it returns, and the batch of the Nth fetching
\* call of an epoch (N >= 2) was launched before the (N-1)th such call returned.
C5_OverlapOrdering ==
    m_launchType = "async" =>
        /\ (Returned /\ result.fetched /\ ~minibatch.endOfEpoch) =>
              (Valid(m_prefetchTask) /\ HandleTask \in tasks)
        /\ (IsGetMinibatch /\ result.fetched /\ nFetched >= 2) =>
              result.launchSeen <= nFetched - 2

C5_Witness ==
    /\ m_launchType = "async" /\ Returned /\ result.kind = "true" /\ result.fetched
    /\ nFetched >= 2 /\ result.launchSeen = nFetched - 2

\* C6: when StartDistributedMinibatchLoop returns, the reader has been given the
\* configuration of the call, m_endOfEpoch is false and exactly one task exists, the
\* one the future refers to; a later GetMinibatch returns false without fetching only
\* if end of epoch was recorded when it was called, and a batch it fetches is one of
\* the epoch started last.
C6_StartEpochRestarts ==
    /\ (pc = "idle" /\ result.op = "StartEpoch") =>
          /\ reader.config = [m_workerRank |-> result.args[3],
                              m_numberOfWorkers |-> result.args[4],
                              m_minibatchSizeInSamples |-> result.args[1],
                              m_totalEpochSizeInSamples |-> result.args[5],
                              m_epochIndex |-> result.args[2]]
          /\ ~m_endOfEpoch
          /\ Valid(m_prefetchTask) /\ tasks = {HandleTask}
          /\ nFetched = 0
    /\ (Returned /\ ~result.fetched /\ ~WrongCount(matrices)) => atCall.endOfEpoch
    /\ (IsGetMinibatch /\ result.fetched) => minibatch.gen = reader.gen

C6_Witness ==
    /\ pc = "idle" /\ result.op = "StartEpoch" /\ atCall.endOfEpoch /\ reader.gen >= 2
    /\ ~m_endOfEpoch

\* C7 (as claimed): a fetching call returns false only for the terminal empty batch,
\* so that a false return implies end of epoch has been recorded.
C7_FalseOnlyForTerminalEmptyBatch ==
    (Returned /\ result.fetched) =>
        /\ result.kind = "false" <=> (~minibatch.hasData /\ minibatch.endOfEpoch)
        /\ result.kind = "false" => m_endOfEpoch

\* C7 (amended): a fetching call returns true exactly when the batch has data, also
\* when that batch ends the epoch; end of epoch is recorded exactly when the batch
\* carries the flag, and after an empty batch without the flag the call returns false
\* with the next task launched.
C7_ReturnsWhetherBatchHasData ==
    (Returned /\ result.fetched) =>
        /\ result.kind = "true" <=> minibatch.hasData
        /\ m_endOfEpoch <=> minibatch.endOfEpoch
        /\ ~minibatch.endOfEpoch => Valid(m_prefetchTask)

C7_Witness ==
    /\ Returned /\ result.fetched /\ result.kind = "false"
    /\ ~minibatch.endOfEpoch /\ ~m_endOfEpoch

\* C8: a call whose number of matrices differs from the number of streams ends with the
\* count-mismatch error carrying both counts, whatever the state, before the future is
\* awaited: the future, m_endOfEpoch and the matrices are as they were.
C8_CountMismatchFirst ==
    (IsGetMinibatch /\ WrongCount(matrices)) =>
        /\ pc = "idle"
        /\ result.kind = "error" /\ result.err = "CountMismatch"
        /\ result.a = Cardinality(DOMAIN matrices)
        /\ result.b = Len(m_streams)
        /\ ~result.fetched
        /\ m_prefetchTask = atCall.task
        /\ m_endOfEpoch = atCall.endOfEpoch
        /\ m_numParallelSequences = atCall.nps
        /\ Untouched

C8_Witness ==
    /\ pc = "idle" /\ IsGetMinibatch /\ WrongCount(matrices)
    /\ Cardinality(DOMAIN matrices) = 3 /\ EndOfEpochSeen

\* C9: a call made after StartDistributedMinibatchLoop, with the right number of
\* matrices of which one has a name that is no stream, ends with the unknown-input
\* error listing the stream names, whatever batch is fetched and also after end of
\* epoch.
C9_UnknownNameAlwaysFails ==
    (pc = "idle" /\ IsGetMinibatch /\ reader.gen > 0
        /\ (Valid(atCall.task) \/ atCall.endOfEpoch)
        /\ ~WrongCount(matrices) /\ UnknownName(matrices)) =>
        /\ result.kind = "error" /\ result.err = "UnknownInput"
        /\ result.names = EnumerateInputs(m_nameToStreamId)

\* C10: a call that fails on a binding error (count, name, device) has not consumed the
\* batch in flight and has changed neither m_endOfEpoch nor the cached number of
\* parallel sequences nor any matrix.
C10_BindingErrorsChangeNothing ==
    (IsGetMinibatch /\ pc \in {"idle", "aborted"}
        /\ \/ result.kind = "error" /\ result.err \in {"CountMismatch", "UnknownInput"}
           \/ result.kind = "abort" /\ DeviceMismatch(matrices)) =>
        /\ ~result.fetched
        /\ m_prefetchTask = atCall.task
        /\ m_endOfEpoch = atCall.endOfEpoch
        /\ m_numParallelSequences = atCall.nps
        /\ Untouched
\* the matrices of the call are not all on one device
MixedDevices(mx) == \E n \in DOMAIN mx, k \in DOMAIN mx : mx[n].dev # mx[k].dev

\* C11: a call that reaches the device check (right count, end of epoch not recorded,
\* a task in flight) with matrices on different devices ends in a fatal error: the
\* batch is not awaited, nothing is decoded, and the call returns neither true nor false.
C11_MixedDevicesAreFatal ==
    (IsGetMinibatch /\ reader.gen > 0 /\ Valid(atCall.task) /\ ~atCall.endOfEpoch
        /\ ~WrongCount(matrices) /\ MixedDevices(matrices)) =>
        /\ pc = "aborted"
        /\ result.kind = "abort"
        /\ ~result.fetched
        /\ m_prefetchTask = atCall.task
        /\ Untouched
\* GetNumElements of the sample layout of the stream named n
SampleElements(n) == m_streams[m_nameToStreamId[n] + 1].numElements

\* matrices of the call that name a stream and have rows that are not the sample size
WrongRows(mx) == {n \in DOMAIN mx \cap DOMAIN m_nameToStreamId :
                     mx[n].rows # 0 /\ mx[n].rows # SampleElements(n)}

\* matrices the copy loop has reached (their layout is copied first)
Processed(mx) == {n \in DOMAIN mx : mx[n].layout # NoLayout}

\* C12: in the step that fetches and decodes a batch with data, the call ends with the
\* size-mismatch error exactly when a matrix it processes has a nonzero row count other
\* than the sample size of its stream; the error names that matrix and both sizes and
\* the matrix has not been filled; a processed matrix with row count 0 is never refused
\* for its size.
C12_SizeMismatchIffNonzeroAndDifferent ==
    [][(pc = "gm_await" /\ pc' # "gm_await" /\ minibatch'.hasData) =>
          /\ result'.err = "SizeMismatch" <=> Processed(matrices') \cap WrongRows(matrices) # {}
          /\ result'.err = "SizeMismatch" =>
                /\ result'.kind = "error"
                /\ result'.name \in WrongRows(matrices)
                /\ result'.a = SampleElements(result'.name)
                /\ result'.b = matrices[result'.name].rows
                /\ matrices'[result'.name].fill = "none"
                /\ matrices'[result'.name].rows = matrices[result'.name].rows
          /\ \A n \in Processed(matrices') :
                (matrices[n].rows = 0 /\ result'.err # "UnsupportedStorage") =>
                    (matrices'[n].fill # "none" /\ matrices'[n].rows = SampleElements(n))]_vars

C12_Witness ==
    /\ pc = "idle" /\ IsGetMinibatch /\ result.err = "SizeMismatch"
    /\ result.a = 2 /\ result.b = 3 /\ matrices["features"].fill = "none"
\* C13 (as claimed): GetNumParallelSequences returns the count of the batch of the last
\* call that returned true; a call that ends in an error, fetches an empty batch or
\* returns false leaves the value as it was.
C13_CountOfLastSuccessfulDecode ==
    (pc = "idle" /\ IsGetMinibatch) =>
        IF result.kind = "true"
        THEN GetNumParallelSequences = minibatch.nps
        ELSE GetNumParallelSequences = atCall.nps
\* C13 (amended): after a call, GetNumParallelSequences returns the count of the batch
\* of that call if the copy loop reached at least one matrix (which every call that
\* returns true does, and so does a call that then fails on a size, a storage type or
\* a later unknown name); otherwise, it returns what it returned before the call.
C13_CountOfLastProcessedStream ==
    (pc = "idle" /\ IsGetMinibatch) =>
        /\ IF Processed(matrices) # {}
           THEN GetNumParallelSequences = minibatch.nps
           ELSE GetNumParallelSequences = atCall.nps
        /\ result.kind = "true" => Processed(matrices) # {}

C13_Witness ==
    /\ pc = "idle" /\ IsGetMinibatch /\ result.kind = "error"
    /\ GetNumParallelSequences # atCall.nps
\* C14: with launch::deferred a task has started ReadMinibatch only while the caller
\* is inside GetMinibatch awaiting that very task; outside such a call every existing
\* task, also the one that StartDistributedMinibatchLoop is about to replace, has not
\* called the reader.
C14_DeferredRunsOnlyWhenAwaited ==
    m_launchType = "deferred" =>
        \A t \in tasks : t.status # "launched" => (pc = "gm_await" /\ t.id = m_prefetchTask)

C14_Witness ==
    /\ m_launchType = "deferred" /\ nDiscarded > 0 /\ pc = "gm_await"
    /\ \E t \in tasks : t.status = "running"
\* position of a name in the iteration order of the map
Pos(n) == CHOOSE i \in 1..Len(NameOrder) : NameOrder[i] = n

DecodeErrors == {"UnknownInput", "SizeMismatch", "UnsupportedStorage"}

\* the matrix named n holds the layout and the data of stream n of batch mb
HoldsBatch(mx, n, mb) ==
    /\ mx[n].fill # "none"
    /\ mx[n].layout = StreamOf(mb, m_nameToStreamId[n]).layout
    /\ mx[n].rows = SampleElements(n)
    /\ mx[n].cols = StreamOf(mb, m_nameToStreamId[n]).layout.cols
    /\ mx[n].data = FillMatrixFromStream(m_streams[m_nameToStreamId[n] + 1].m_storageType,
                                         mx[n], SampleElements(n),
                                         StreamOf(mb, m_nameToStreamId[n])).matrix.data

\* C15: when the decode of one matrix fails, the call ends with that error; the
\* matrices before it in iteration order hold the layout and data of the fetched
\* batch, and the matrices after it are as the caller passed them.
C15_DecodeIsNotTransactional ==
    (pc = "idle" /\ IsGetMinibatch /\ result.err \in DecodeErrors) =>
        /\ result.kind = "error" /\ result.fetched
        /\ result.name \in DOMAIN matrices
        /\ \A n \in DOMAIN matrices :
              /\ Pos(n) < Pos(result.name) => HoldsBatch(matrices, n, minibatch)
              /\ Pos(n) > Pos(result.name) =>
                    (matrices[n].fill = "none" /\ matrices[n].layout = NoLayout
                        /\ matrices[n].cols = 0 /\ matrices[n].data = <<>>)
        /\ matrices[result.name].fill = "none"

C15_Witness ==
    /\ pc = "idle" /\ IsGetMinibatch /\ result.err = "UnknownInput"
    /\ "features" \in DOMAIN matrices /\ matrices["features"].fill = "dense"
\* storage type of the stream named n
StorageOf(n) == m_streams[m_nameToStreamId[n] + 1].m_storageType

\* C16: after a call that decoded, every filled matrix was filled by the path of its
\* stream's storage type (dense or sparse CSC); the call ends with the unsupported-
\* storage error, carrying the type value, exactly when a matrix it processed (and did
\* not refuse for its size) belongs to a stream of another type, and that matrix is
\* not filled.
C16_DispatchByStorageType ==
    (pc = "idle" /\ IsGetMinibatch /\ result.fetched) =>
        /\ \A n \in DOMAIN matrices :
              /\ matrices[n].fill = "dense" => StorageOf(n) = StorageDense
              /\ matrices[n].fill = "sparse" => StorageOf(n) = StorageSparseCsc
              /\ (n \in Processed(matrices) /\ StorageOf(n) \notin {StorageDense, StorageSparseCsc}
                     /\ result.err # "SizeMismatch") =>
                    (result.err = "UnsupportedStorage" /\ result.name = n)
        /\ result.err = "UnsupportedStorage" =>
              /\ result.kind = "error"
              /\ StorageOf(result.name) \notin {StorageDense, StorageSparseCsc}
              /\ result.a \notin {0, 1}
              /\ matrices[result.name].fill = "none"
              /\ matrices[result.name].data = <<>>

C16_Witness ==
    /\ pc = "idle" /\ IsGetMinibatch /\ result.err = "UnsupportedStorage"
    /\ result.name = "labels" /\ matrices["features"].fill = "dense"
\* tasks that are executing m_reader->ReadMinibatch()
Reading == {t \in tasks : t.status = "running"}

\* C18: whenever the caller may call GetMinibatch after an epoch was started and end of
\* epoch is not recorded, the future has a shared state to await, also after a call
\* that left by a decode error.
C18_FutureValidWhileEpochRuns ==
    (pc = "idle" /\ reader.gen > 0 /\ ~m_endOfEpoch) => Valid(m_prefetchTask)

\* C19: with launch::async the reader's StartEpoch never runs while a task is inside
\* ReadMinibatch, and no two tasks are inside ReadMinibatch at once.
C19_ReaderCallsNeverOverlap ==
    m_launchType = "async" =>
        /\ pc = "se_reader" => Reading = {}
        /\ Cardinality(Reading) <= 1
\* the matrix the reader encoded, as (row, column) -> element
Encoded(source, numRows, numCols) ==
    [rc \in (0..(numRows - 1)) \X (0..(numCols - 1)) |-> ValueAt(source, rc[1], rc[2])]

\* C17: the sparse decoder takes nnz from the length prefix, the next nnz elements as
\* values, the nnz indices after them as row indices and the numCols + 1 indices after
\* those as column offsets, and makes the destination a sparse matrix of the stream's
\* sample element count by the layout's column count whose dense form is the matrix
\* that was encoded.
C17_SparseCscDecodesTheEncodedMatrix ==
    pc = "csc_done" =>
        LET m == matrices["labels"]
            ord == InCscOrder(minibatch.source)
            numCols == minibatch.nps * TimeSteps
        IN /\ m.fill = "sparse"
           /\ m.rows = m_streams[1].numElements
           /\ m.cols = numCols
           /\ m.data.nnz = Cardinality(minibatch.source)
           /\ m.data.values = [i \in 1..Len(ord) |-> ord[i].val]
           /\ m.data.rows = [i \in 1..Len(ord) |-> ord[i].row]
           /\ m.data.columns = [c \in 1..(numCols + 1) |->
                                   Cardinality({e \in minibatch.source : e.col < c - 1})]
           /\ Densify(m) = Encoded(minibatch.source, m.rows, m.cols)

C17_Witness ==
    /\ pc = "csc_done"
    /\ elemSize = DoubleSize
    /\ minibatch.source = ExampleSource(5, 9)
    /\ matrices["labels"].rows = 4 /\ matrices["labels"].cols = 3
    /\ matrices["labels"].data = [nnz |-> 2, values |-> <<5, 9>>, rows |-> <<1, 3>>,
                                  columns |-> <<0, 1, 2, 2>>]
    /\ Densify(matrices["labels"])[<<1, 0>>] = 5
    /\ Densify(matrices["labels"])[<<3, 1>>] = 9
    /\ \A rc \in DOMAIN Densify(matrices["labels"]) :
          rc \notin {<<1, 0>>, <<3, 1>>} => Densify(matrices["labels"])[rc] = 0
\* every stream of the reader has a storage type the shim decodes
SupportedStreams ==
    \A i \in 1..Len(m_streams) : m_streams[i].m_storageType \in {StorageDense, StorageSparseCsc}

\* a GetMinibatch call of a started epoch, with valid bindings, is in progress or ended
ValidCall == IsGetMinibatch /\ reader.gen > 0 /\ SupportedStreams /\ ValidBindings(matrices)

\* the process was ended by the device check
FatalByDevices == pc = "aborted" /\ MixedDevices(matrices)

\* C20: in a started epoch with a fairly scheduled task and a reader that ends the
\* epoch, every GetMinibatch call with valid bindings comes back to the caller; a
\* caller that keeps calling eventually receives false with end of epoch recorded
\* (unless the device check ended the process); and a call that waits for a task that
\* has finished goes on.
C20_CallsTerminateAndEpochEnds ==
    /\ (ValidCall /\ pc # "idle") ~> (pc = "idle")
    /\ (reader.gen > 0 /\ pc = "idle" /\ SupportedStreams) ~>
          ((pc = "idle" /\ Returned /\ result.kind = "false" /\ m_endOfEpoch) \/ FatalByDevices)
    /\ FetchReady ~> ~FetchReady
====
